---- MODULE Spec2Model ----
(***************************************************************************)
(* Text layout engine of the bird-card generator (src/app.py): greedy      *)
(* pixel wrapping, bubble measurement and drawing, and the linear card     *)
(* layout pass.                                                            *)
(*                                                                         *)
(* A string is a sequence of one-character strings.  Glyphs fall in two    *)
(* advance-width classes, "a" (narrow) and "W" (wide); " " and "\n" are    *)
(* the whitespace characters str.split() separates on.  A font is a record *)
(* of its advance widths and its (ascent, descent) metrics, and            *)
(* draw.textlength is the sum of the advance widths.                       *)
(***************************************************************************)
EXTENDS Integers, Sequences, FiniteSets, TLC

VARIABLES pc, text, font, max_width, lines, prev_width, prev_lines,
          bubble_width, margin, line_spacing, label_content_gap, y,
          label, label_font, measured, canvas, ret, idx, image,
          final_y, space_for_bubble

vars == <<pc, text, font, max_width, lines, prev_width, prev_lines,
          bubble_width, margin, line_spacing, label_content_gap, y,
          label, label_font, measured, canvas, ret, idx, image,
          final_y, space_for_bubble>>

\* ------------------------------------------------------------------ bounds
MaxLen == 4
MaxWidth == 7

\* ------------------------------------------------------------- characters
Glyphs == {"a", "W"}
Whitespace == {" ", "\n"}
Chars == Glyphs \cup Whitespace

RECURSIVE StringsUpTo(_)
StringsUpTo(n) ==
    IF n = 0 THEN {<<>>}
    ELSE LET shorter == StringsUpTo(n - 1)
         IN shorter \cup {Append(s, c) : s \in {t \in shorter : Len(t) = n - 1}, c \in Chars}

\* ------------------------------------------------------------------ fonts
\* advance widths per glyph class, and the getmetrics() pair
UnitFont == [a |-> 1, W |-> 3, sp |-> 1, ascent |-> 2, descent |-> 1]
WideFont == [a |-> 2, W |-> 3, sp |-> 2, ascent |-> 3, descent |-> 1]
WrapFonts == {UnitFont, WideFont}

\* capitals take the wide advance, every other glyph the narrow one
Capitals == {"W", "N", "D", "H", "A", "C", "T", "E"}

char_width(f, c) ==
    IF c \in Whitespace THEN f.sp ELSE IF c \in Capitals THEN f.W ELSE f.a

\* draw.textlength(s, font=f): the sum of the advance widths
RECURSIVE textlength(_, _)
textlength(s, f) ==
    IF s = <<>> THEN 0
    ELSE IF Len(s) = 1 THEN char_width(f, s[1])
    ELSE LET half == Len(s) \div 2
         IN textlength(SubSeq(s, 1, half), f) + textlength(SubSeq(s, half + 1, Len(s)), f)

get_line_height(f, spacing) == f.ascent + f.descent + spacing

\* --------------------------------------------------------- str primitives
RECURSIVE rstrip(_)
rstrip(s) ==
    IF s = <<>> THEN s
    ELSE IF s[Len(s)] \in Whitespace THEN rstrip(SubSeq(s, 1, Len(s) - 1)) ELSE s

RECURSIVE lstrip(_)
lstrip(s) ==
    IF s = <<>> THEN s
    ELSE IF Head(s) \in Whitespace THEN lstrip(Tail(s)) ELSE s

strip(s) == lstrip(rstrip(s))

\* index of the first whitespace character of s, Len(s) + 1 when there is none
first_whitespace(s) ==
    LET ws == {i \in 1..Len(s) : s[i] \in Whitespace}
    IN IF ws = {} THEN Len(s) + 1 ELSE CHOOSE i \in ws : \A j \in ws : i <= j

\* str.split(): the maximal runs of non-whitespace characters, in order
RECURSIVE split(_)
split(s) ==
    LET t == lstrip(s)
    IN IF t = <<>> THEN <<>>
       ELSE LET k == first_whitespace(t)
            IN <<SubSeq(t, 1, k - 1)>> \o split(SubSeq(t, k, Len(t)))

\* -------------------------------------------------------- split_long_word
\* the test `current_width + char_width <= max_width`
\* faulty variant: a character that fills the width exactly is refused
char_fits_strictly(current_width, cw, maxw) == current_width + cw < maxw

\* faulty variant: a segment is never closed
char_fits_always(current_width, cw, maxw) == TRUE

char_fits(current_width, cw, maxw) == current_width + cw <= maxw

\* `for char in word`, on the locals segments, current_segment, current_width
RECURSIVE split_loop(_, _, _, _, _, _)
split_loop(segments, current_segment, current_width, word, f, maxw) ==
    IF word = <<>>
    THEN [segments |-> segments, current_segment |-> current_segment]
    ELSE LET char == Head(word)
             cw == char_width(f, char)
         IN IF char_fits(current_width, cw, maxw)
            THEN split_loop(segments, Append(current_segment, char),
                            current_width + cw, Tail(word), f, maxw)
            ELSE split_loop(Append(segments, current_segment), <<char>>,
                            cw, Tail(word), f, maxw)

split_long_word(word, f, maxw) ==
    LET st == split_loop(<<>>, <<>>, 0, word, f, maxw)
    IN IF st.current_segment # <<>>
       THEN Append(st.segments, st.current_segment)
       ELSE st.segments

\* ---------------------------------------------------- wrap_text_by_pixels
wrap_init == [lines |-> <<>>, current_line |-> <<>>, current_width |-> 0]

\* faulty variant: a segment too wide with its trailing space is skipped
RECURSIVE append_parts_drops_extreme(_, _, _, _)
append_parts_drops_extreme(ls, parts, f, maxw) ==
    IF parts = <<>> THEN ls
    ELSE LET part == Head(parts)
             part_width == textlength(Append(part, " "), f)
         IN IF part_width > maxw
            THEN append_parts_drops_extreme(ls, Tail(parts), f, maxw)
            ELSE append_parts_drops_extreme(Append(ls, part), Tail(parts), f, maxw)

\* both branches of the inner `for i, part in enumerate(sub_parts)` append part
RECURSIVE append_parts(_, _, _, _)
append_parts(ls, parts, f, maxw) ==
    IF parts = <<>> THEN ls
    ELSE LET part == Head(parts)
             part_width == textlength(Append(part, " "), f)
         IN IF part_width > maxw
            THEN append_parts(Append(ls, part), Tail(parts), f, maxw)
            ELSE append_parts(Append(ls, part), Tail(parts), f, maxw)

\* faulty variant: the full line is not pushed before the next one starts
wrap_word_forgets_flush(st, w, f, maxw) ==
    LET w_test == Append(w, " ")
        w_width == textlength(w_test, f)
    IN IF w_width > maxw
       THEN LET flushed == IF st.current_line # <<>>
                           THEN [lines |-> Append(st.lines, rstrip(st.current_line)),
                                 current_line |-> <<>>,
                                 current_width |-> 0]
                           ELSE st
            IN [lines |-> append_parts(flushed.lines, split_long_word(w, f, maxw), f, maxw),
                current_line |-> flushed.current_line,
                current_width |-> flushed.current_width]
       ELSE IF st.current_width + w_width <= maxw
            THEN [lines |-> st.lines,
                  current_line |-> st.current_line \o w_test,
                  current_width |-> st.current_width + w_width]
            ELSE [lines |-> st.lines,
                  current_line |-> w_test,
                  current_width |-> w_width]

\* one iteration of `for w in words`
wrap_word(st, w, f, maxw) ==
    LET w_test == Append(w, " ")
        w_width == textlength(w_test, f)
    IN IF w_width > maxw
       THEN LET flushed == IF st.current_line # <<>>
                           THEN [lines |-> Append(st.lines, rstrip(st.current_line)),
                                 current_line |-> <<>>,
                                 current_width |-> 0]
                           ELSE st
            IN [lines |-> append_parts(flushed.lines, split_long_word(w, f, maxw), f, maxw),
                current_line |-> flushed.current_line,
                current_width |-> flushed.current_width]
       ELSE IF st.current_width + w_width <= maxw
            THEN [lines |-> st.lines,
                  current_line |-> st.current_line \o w_test,
                  current_width |-> st.current_width + w_width]
            ELSE [lines |-> Append(st.lines, rstrip(st.current_line)),
                  current_line |-> w_test,
                  current_width |-> w_width]

RECURSIVE wrap_loop(_, _, _, _)
wrap_loop(st, words, f, maxw) ==
    IF words = <<>> THEN st
    ELSE wrap_loop(wrap_word(st, Head(words), f, maxw), Tail(words), f, maxw)

\* faulty variant: the last line is pushed even when blank
wrap_always_flushes(s, f, maxw) ==
    LET st == wrap_loop(wrap_init, split(s), f, maxw)
    IN Append(st.lines, rstrip(st.current_line))

wrap_text_by_pixels(s, f, maxw) ==
    LET st == wrap_loop(wrap_init, split(s), f, maxw)
    IN IF strip(st.current_line) # <<>>
       THEN Append(st.lines, rstrip(st.current_line))
       ELSE st.lines

\* ---------------------------------------------------------------- bubbles
\* placement_factor = 0.1 = 1 / PlacementDen.  final_y is the only
\* non-integer quantity of the program, so vertical canvas coordinates are
\* kept in 1/YUnit pixel; widths, heights, margins and gaps are in pixels.
PlacementDen == 10
YUnit == PlacementDen
FixedGap == 10

get_text_bubble_height(s, f, bw, m, spacing) ==
    LET max_text_width == bw - 2 * m
        ls == wrap_text_by_pixels(s, f, max_text_width)
        line_h == get_line_height(f, spacing)
        total_text_height == Len(ls) * line_h
    IN m + total_text_height + m

rounded_rectangle(x0, y0, x1, y1) ==
    [op |-> "rect", x |-> x0, y |-> y0, x2 |-> x1, y2 |-> y1]

draw_text(x0, y0, line, f) ==
    [op |-> "text", x |-> x0, y |-> y0, line |-> line, font |-> f]

\* `for line in lines: draw.text(...); current_y += line_h`
RECURSIVE draw_lines(_, _, _, _, _, _)
draw_lines(cv, ls, x0, current_y, f, line_h) ==
    IF ls = <<>> THEN [canvas |-> cv, current_y |-> current_y]
    ELSE draw_lines(Append(cv, draw_text(x0, current_y, Head(ls), f)),
                    Tail(ls), x0, current_y + YUnit * line_h, f, line_h)

\* faulty variant: the bottom margin is left out of the drawn height
draw_text_bubble_height_without_bottom(s, cv, x0, y0, bw, f, m, spacing) ==
    LET max_text_width == bw - 2 * m
        ls == wrap_text_by_pixels(s, f, max_text_width)
        line_h == get_line_height(f, spacing)
        total_text_height == Len(ls) * line_h
        total_height == m + total_text_height
        bubble == Append(cv, rounded_rectangle(x0, y0, x0 + bw, y0 + YUnit * total_height))
        drawn == draw_lines(bubble, ls, x0 + m, y0 + YUnit * m, f, line_h)
    IN [canvas |-> drawn.canvas, lines |-> ls,
        ret |-> y0 + YUnit * (total_height + FixedGap)]

draw_text_bubble(s, cv, x0, y0, bw, f, m, spacing) ==
    LET max_text_width == bw - 2 * m
        ls == wrap_text_by_pixels(s, f, max_text_width)
        line_h == get_line_height(f, spacing)
        total_text_height == Len(ls) * line_h
        total_height == m + total_text_height + m
        bubble == Append(cv, rounded_rectangle(x0, y0, x0 + bw, y0 + YUnit * total_height))
        drawn == draw_lines(bubble, ls, x0 + m, y0 + YUnit * m, f, line_h)
    IN [canvas |-> drawn.canvas, lines |-> ls,
        ret |-> y0 + YUnit * (total_height + FixedGap)]

\* faulty variant: the content starts right under the label
draw_label_and_content_no_gap(lb, s, cv, x0, y0, bw, lf, f, m, gap, spacing) ==
    LET max_text_width == bw - 2 * m
        label_lines == wrap_text_by_pixels(lb, lf, max_text_width)
        content_lines == wrap_text_by_pixels(s, f, max_text_width)
        label_line_height == get_line_height(lf, spacing)
        content_line_height == get_line_height(f, spacing)
        label_height_total == Len(label_lines) * label_line_height
        content_height_total == Len(content_lines) * content_line_height
        total_height == m + label_height_total + gap + content_height_total + m
        bubble == Append(cv, rounded_rectangle(x0, y0, x0 + bw, y0 + YUnit * total_height))
        labelled == draw_lines(bubble, label_lines, x0 + m, y0 + YUnit * m,
                               lf, label_line_height)
        filled == draw_lines(labelled.canvas, content_lines, x0 + m,
                             labelled.current_y,
                             f, content_line_height)
    IN [canvas |-> filled.canvas, ret |-> y0 + YUnit * (total_height + FixedGap)]

draw_label_and_content(lb, s, cv, x0, y0, bw, lf, f, m, gap, spacing) ==
    LET max_text_width == bw - 2 * m
        label_lines == wrap_text_by_pixels(lb, lf, max_text_width)
        content_lines == wrap_text_by_pixels(s, f, max_text_width)
        label_line_height == get_line_height(lf, spacing)
        content_line_height == get_line_height(f, spacing)
        label_height_total == Len(label_lines) * label_line_height
        content_height_total == Len(content_lines) * content_line_height
        total_height == m + label_height_total + gap + content_height_total + m
        bubble == Append(cv, rounded_rectangle(x0, y0, x0 + bw, y0 + YUnit * total_height))
        labelled == draw_lines(bubble, label_lines, x0 + m, y0 + YUnit * m,
                               lf, label_line_height)
        filled == draw_lines(labelled.canvas, content_lines, x0 + m,
                             labelled.current_y + YUnit * gap,
                             f, content_line_height)
    IN [canvas |-> filled.canvas, ret |-> y0 + YUnit * (total_height + FixedGap)]

\* ------------------------------------------------------------ wrap harness
\* the 50-character word of the scenario: 10 px per glyph, 80 px budget
TenPxFont == [a |-> 10, W |-> 14, sp |-> 5, ascent |-> 14, descent |-> 4]
ScenarioWord == [i \in 1..50 |-> "a"]

NoBubble ==
    /\ bubble_width = 0 /\ margin = 0 /\ line_spacing = 0
    /\ label_content_gap = 0 /\ y = 0 /\ label = <<>> /\ label_font = font
    /\ measured = 0 /\ canvas = <<>> /\ ret = 0 /\ idx = 0 /\ image = FALSE
    /\ final_y = 0 /\ space_for_bubble = 0

bubble_vars == <<bubble_width, margin, line_spacing, label_content_gap, y,
                 label, label_font, measured, canvas, ret, idx, image,
                 final_y, space_for_bubble>>

WrapInit ==
    /\ pc = "ready"
    /\ \/ /\ text \in StringsUpTo(MaxLen)
          /\ font \in WrapFonts
          /\ max_width \in 0..MaxWidth
       \/ /\ text = ScenarioWord
          /\ font = TenPxFont
          /\ max_width = 80
    /\ lines = <<>>
    /\ prev_width = 0
    /\ prev_lines = <<>>
    /\ NoBubble

\* lines = wrap_text_by_pixels(draw, text, font, max_width)
Wrap ==
    /\ pc = "ready"
    /\ lines' = wrap_text_by_pixels(text, font, max_width)
    /\ pc' = "wrapped"
    /\ UNCHANGED <<text, font, max_width, prev_width, prev_lines>>
    /\ UNCHANGED bubble_vars

\* the same text and font wrapped again under another pixel budget
Rewrap ==
    /\ pc \in {"wrapped", "rewrapped"}
    /\ \E m \in 0..MaxWidth :
          /\ max_width' = m
          /\ lines' = wrap_text_by_pixels(text, font, m)
    /\ prev_width' = max_width
    /\ prev_lines' = lines
    /\ pc' = "rewrapped"
    /\ UNCHANGED <<text, font>>
    /\ UNCHANGED bubble_vars

WrapNext == Wrap \/ Rewrap

SpecWrap == WrapInit /\ [][WrapNext]_vars

\* ---------------------------------------------------------- bubble harness
MaxMargin == 1
MaxSpacing == 1
MaxGap == 1
Origins == {0, 15}
\* the bold font of the label and a two-word label
BoldFont == [a |-> 2, W |-> 4, sp |-> 1, ascent |-> 3, descent |-> 2]
BubbleLabel == <<"W", "a", " ", "a", "a">>

wrap_vars == <<max_width, prev_width, prev_lines>>

BubbleInit ==
    /\ pc = "ready"
    /\ text \in StringsUpTo(MaxLen - 1)
    /\ font \in WrapFonts
    /\ bubble_width \in 0..MaxWidth
    /\ margin \in 0..MaxMargin
    /\ line_spacing \in 0..MaxSpacing
    /\ y = 0
    /\ label = <<>> /\ label_font = font /\ label_content_gap = 0
    /\ max_width = 0 /\ lines = <<>> /\ prev_width = 0 /\ prev_lines = <<>>
    /\ measured = 0 /\ canvas = <<>> /\ ret = 0 /\ idx = 0 /\ image = FALSE
    /\ final_y = 0 /\ space_for_bubble = 0

\* measured = get_text_bubble_height(draw, text, font, bubble_width, margin, line_spacing)
Measure ==
    /\ pc = "ready"
    /\ measured' = get_text_bubble_height(text, font, bubble_width, margin, line_spacing)
    /\ pc' = "measured"
    /\ UNCHANGED <<text, font, lines, bubble_width, margin, line_spacing,
                   label_content_gap, y, label, label_font, canvas, ret, idx,
                   image, final_y, space_for_bubble>>
    /\ UNCHANGED wrap_vars

\* ret = draw_text_bubble(draw, text, 0, y, bubble_width, font, ..., margin, line_spacing)
DrawTextBubble ==
    /\ pc = "measured"
    /\ \E y0 \in Origins :
          /\ y' = y0
          /\ \E r \in {draw_text_bubble(text, canvas, 0, y0, bubble_width, font,
                                        margin, line_spacing)} :
                /\ canvas' = r.canvas
                /\ lines' = r.lines
                /\ ret' = r.ret
    /\ pc' = "drawn"
    /\ UNCHANGED <<text, font, bubble_width, margin, line_spacing,
                   label_content_gap, label, label_font, measured, idx,
                   image, final_y, space_for_bubble>>
    /\ UNCHANGED wrap_vars

\* ret = draw_label_and_content(draw, label, text, 0, y, bubble_width, label_font, font, ...)
DrawLabelAndContent ==
    /\ pc = "ready"
    /\ \E y0 \in Origins, gap \in 0..MaxGap :
          /\ y' = y0
          /\ label' = BubbleLabel
          /\ label_font' = BoldFont
          /\ label_content_gap' = gap
          /\ \E r \in {draw_label_and_content(BubbleLabel, text, canvas, 0, y0,
                                              bubble_width, BoldFont, font, margin,
                                              gap, line_spacing)} :
                /\ canvas' = r.canvas
                /\ ret' = r.ret
    /\ pc' = "labelled"
    /\ UNCHANGED <<text, font, lines, bubble_width, margin, line_spacing,
                   measured, idx, image, final_y, space_for_bubble>>
    /\ UNCHANGED wrap_vars

BubbleNext == Measure \/ DrawTextBubble \/ DrawLabelAndContent

SpecBubble == BubbleInit /\ [][BubbleNext]_vars

\* ------------------------------------------------------------ card layout
width == 1000
height == 1400
start_y == 150
img_w == 320
img_h == 280
img_x == width - img_w - 60
img_y == YUnit * start_y
info_x_end == img_x - 30
large_width == width - 120
bottom_margin_for_frise == 50

\* the labels of `infos`, in the order of the list
infos_labels ==
    << <<"N", "o", "m", " ", "s", "c", "i", "e", "n", "t", "i", "f", "i", "q", "u", "e">>,
       <<"D", "i", "m", "e", "n", "s", "i", "o", "n", "s">>,
       <<"H", "a", "b", "i", "t", "a", "t">>,
       <<"A", "l", "i", "m", "e", "n", "t", "a", "t", "i", "o", "n">>,
       <<"C", "o", "m", "p", "o", "r", "t", "e", "m", "e", "n", "t">>,
       <<"T", "r", "a", "i", "t", " ", "p", "a", "r", "t", "i", "c", "u", "l", "i", "e", "r">>,
       <<"C", "o", "n", "f", "u", "s", "i", "o", "n", "s">> >>

\* slider settings: the minima, the defaults and the maxima of margin_bulle
\* (5..30), label_content_gap (5..50) and line_spacing (0..20)
SliderSettings ==
    { [margin_bulle |-> 5, label_content_gap |-> 5, line_spacing |-> 0],
      [margin_bulle |-> 10, label_content_gap |-> 10, line_spacing |-> 5],
      [margin_bulle |-> 30, label_content_gap |-> 50, line_spacing |-> 20] }

etiquette_font == [a |-> 12, W |-> 16, sp |-> 6, ascent |-> 20, descent |-> 5]
SmallFont == [a |-> 9, W |-> 13, sp |-> 5, ascent |-> 14, descent |-> 4]
LargeFont == [a |-> 16, W |-> 22, sp |-> 8, ascent |-> 24, descent |-> 6]
ContentFonts == {SmallFont, LargeFont}

\* form values: an empty field, the placeholder of the form, a long unbroken word
LongWord == [i \in 1..40 |-> "a"]
Placeholder == <<"E", "r", "i", "t", "h", "a", "c", "u", "s", " ", "r", "u", "b", "e", "c", "u", "l", "a">>
FieldSamples == {<<>>, Placeholder, LongWord}
\* the free text: empty, one line, or a paragraph with a line break
Paragraph ==
    Placeholder \o <<" ">> \o Placeholder \o <<"\n">> \o Placeholder
TexteSamples == {<<>>, Placeholder, Paragraph}

Max(a, b) == IF a >= b THEN a ELSE b

\* faulty variant: without an image the bubbles take the full width
field_bubble_width_unreserved(img) ==
    IF img THEN info_x_end - 60 ELSE large_width

\* info_x_end = img_x - 30; bubble_width = info_x_end - 60, image or not
field_bubble_width(img) == info_x_end - 60

\* faulty variant: the offset is applied even when the bubble does not fit
place_always_centres(y1, bubble_height, space) ==
    y1 + (space - YUnit * bubble_height) \div PlacementDen

\* final_y: a tenth of the slack below y when the bubble fits, else y
place_final_y(y1, bubble_height, space) ==
    IF YUnit * bubble_height < space
    THEN y1 + (space - YUnit * bubble_height) \div PlacementDen
    ELSE y1

CardInit ==
    /\ pc = "start"
    /\ \E sl \in SliderSettings :
          /\ margin = sl.margin_bulle
          /\ label_content_gap = sl.label_content_gap
          /\ line_spacing = sl.line_spacing
    /\ font \in ContentFonts
    /\ label_font = etiquette_font
    /\ image \in BOOLEAN
    /\ text = <<>> /\ label = <<>> /\ lines = <<>>
    /\ y = 0 /\ bubble_width = 0 /\ idx = 0 /\ canvas = <<>>
    /\ measured = 0 /\ ret = 0 /\ final_y = 0 /\ space_for_bubble = 0
    /\ max_width = 0 /\ prev_width = 0 /\ prev_lines = <<>>

card_params == <<margin, label_content_gap, line_spacing, font, label_font, image>>

\* steps 6 and 7: cursor start, optional image frame and paste, bubble width
StartLayout ==
    /\ pc = "start"
    /\ y' = YUnit * start_y
    /\ canvas' = IF image
                 THEN canvas \o
                      << rounded_rectangle(img_x - 8, img_y - YUnit * 8,
                                           img_x + img_w + 8,
                                           img_y + YUnit * (img_h + 8)),
                         [op |-> "paste", x |-> img_x, y |-> img_y,
                          x2 |-> img_x + img_w, y2 |-> img_y + YUnit * img_h] >>
                 ELSE canvas
    /\ bubble_width' = field_bubble_width(image)
    /\ idx' = 1
    /\ pc' = "fields"
    /\ UNCHANGED <<text, label, lines, measured, ret, final_y, space_for_bubble>>
    /\ UNCHANGED card_params
    /\ UNCHANGED wrap_vars

\* step 9: one iteration of `for label, content in infos`
DrawField ==
    /\ pc = "fields"
    /\ \E content \in FieldSamples :
          \E r \in {draw_label_and_content(infos_labels[idx], content, canvas, 60, y,
                                           bubble_width, label_font, font, margin,
                                           label_content_gap, line_spacing)} :
             /\ canvas' = r.canvas
             /\ y' = r.ret
    /\ label' = infos_labels[idx]
    /\ idx' = idx + 1
    /\ pc' = IF idx = Len(infos_labels) THEN "place" ELSE "fields"
    /\ UNCHANGED <<text, lines, bubble_width, measured, ret, final_y, space_for_bubble>>
    /\ UNCHANGED card_params
    /\ UNCHANGED wrap_vars

\* step 10: placement of the free-text bubble
PlaceFreeText ==
    /\ pc = "place"
    /\ \E texte \in TexteSamples :
          \E y1 \in {Max(y, img_y + YUnit * (img_h + 60))},
             bubble_height \in {get_text_bubble_height(texte, font, large_width,
                                                       margin, line_spacing)} :
          LET space == YUnit * (height - bottom_margin_for_frise) - y1
          IN /\ text' = texte
             /\ y' = y1
             /\ measured' = bubble_height
             /\ space_for_bubble' = space
             /\ final_y' = place_final_y(y1, bubble_height, space)
    /\ pc' = "final"
    /\ UNCHANGED <<label, lines, bubble_width, idx, canvas, ret>>
    /\ UNCHANGED card_params
    /\ UNCHANGED wrap_vars

\* y = draw_text_bubble(draw, texte, 60, final_y, large_width, ...)
DrawFreeText ==
    /\ pc = "final"
    /\ \E r \in {draw_text_bubble(text, canvas, 60, final_y, large_width, font,
                                    margin, line_spacing)} :
          /\ canvas' = r.canvas
          /\ lines' = r.lines
          /\ y' = r.ret
          /\ ret' = r.ret
    /\ pc' = "done"
    /\ UNCHANGED <<text, label, bubble_width, idx, measured, final_y, space_for_bubble>>
    /\ UNCHANGED card_params
    /\ UNCHANGED wrap_vars

CardNext == StartLayout \/ DrawField \/ PlaceFreeText \/ DrawFreeText

SpecCard == CardInit /\ [][CardNext]_vars

\* ================================================================= claims
Wrapped == pc \in {"wrapped", "rewrapped"}

words_of_text == split(text)

ForceSplit(maxw) ==
    \E i \in 1..Len(words_of_text) :
        textlength(Append(words_of_text[i], " "), font) > maxw

EveryCharFits ==
    \A i \in 1..Len(text) : char_width(font, text[i]) <= max_width

OneWord == text # <<>> /\ \A i \in 1..Len(text) : text[i] \notin Whitespace

RECURSIVE Join(_, _)
Join(ls, sep) ==
    IF ls = <<>> THEN <<>>
    ELSE IF Len(ls) = 1 THEN ls[1]
    ELSE ls[1] \o sep \o Join(Tail(ls), sep)

Without(s, cs) == SelectSeq(s, LAMBDA c : c \notin cs)

CeilDiv(n, k) == (n + k - 1) \div k

\* C1: for a non-empty text and a max_width at least as wide as every
\* character of the text, every line wrap_text_by_pixels returns measures at
\* most max_width, whole-word lines and force-split segments alike.
C1_LinesFit ==
    (Wrapped /\ text # <<>> /\ EveryCharFits)
        => \A i \in 1..Len(lines) : textlength(lines[i], font) <= max_width

\* a force-split word next to a whole-word line, under the precondition
C1_Witness ==
    /\ Wrapped /\ text # <<>> /\ EveryCharFits
    /\ ForceSplit(max_width)
    /\ Len(words_of_text) >= 2
    /\ \E i \in 1..Len(lines) : lines[i] \in {words_of_text[j] : j \in 1..Len(words_of_text)}
    /\ \E i \in 1..Len(lines) : lines[i] \notin {words_of_text[j] : j \in 1..Len(words_of_text)}

\* C3: when max_width is smaller than every character, a one-word text of n
\* characters wraps to exactly n lines, the i-th being the i-th character.
C3_OneCharPerLine ==
    (/\ Wrapped /\ OneWord
     /\ \A i \in 1..Len(text) : char_width(font, text[i]) > max_width)
        => lines = [i \in 1..Len(text) |-> <<text[i]>>]

\* C4: wrapping the same text and font under a larger max_width never gives
\* more lines, in either order of the two calls.
C4_Monotone ==
    pc = "rewrapped" =>
        /\ prev_width <= max_width => Len(lines) <= Len(prev_lines)
        /\ max_width <= prev_width => Len(prev_lines) <= Len(lines)

\* a word force-split under the smaller width and placed whole under the larger
C4_Witness ==
    /\ pc = "rewrapped"
    /\ prev_width < max_width
    /\ Len(words_of_text) >= 2
    /\ ForceSplit(prev_width) /\ ~ForceSplit(max_width)
    /\ Len(lines) < Len(prev_lines)

\* C5: without a force-split word the lines joined by single spaces are the
\* words joined by single spaces; in every case the lines concatenated and
\* stripped of spaces are the text stripped of whitespace.
C5_NothingLost ==
    Wrapped =>
        /\ ~ForceSplit(max_width) => Join(lines, <<" ">>) = Join(words_of_text, <<" ">>)
        /\ Without(Join(lines, <<>>), {" "}) = Without(text, Whitespace)

C5_Witness ==
    /\ Wrapped
    /\ ~ForceSplit(max_width)
    /\ Len(words_of_text) >= 2
    /\ Len(lines) = 2

\* C9: one word of n glyphs, each c wide, wider than max_width with its
\* trailing space, max_width >= c: exactly ceil(n / floor(max_width / c))
\* lines, each within max_width and without a space, all but the last of
\* floor(max_width / c) glyphs.
C9_SegmentCount ==
    (/\ Wrapped /\ OneWord
     /\ \A i \in 1..Len(text) : text[i] = text[1]
     /\ textlength(Append(text, " "), font) > max_width
     /\ max_width >= char_width(font, text[1]))
        => LET c == char_width(font, text[1])
               k == max_width \div c
           IN /\ Len(lines) = CeilDiv(Len(text), k)
              /\ \A i \in 1..Len(lines) :
                    /\ textlength(lines[i], font) <= max_width
                    /\ \A j \in 1..Len(lines[i]) : lines[i][j] # " "
              /\ \A i \in 1..(Len(lines) - 1) : Len(lines[i]) = k

\* the 50-glyph word at 10 px per glyph under 80 px: 7 lines
C9_Witness ==
    /\ pc = "wrapped"
    /\ text = ScenarioWord /\ font = TenPxFont /\ max_width = 80
    /\ Len(lines) = 7

\* ---- bubbles
line_count == Len(wrap_text_by_pixels(text, font, bubble_width - 2 * margin))

TextOps == {i \in 1..Len(canvas) : canvas[i].op = "text"}

\* C2: get_text_bubble_height is margin + lines * line height + margin, and
\* draw_text_bubble with the same parameters draws a rectangle of that
\* height at y, ends its last line no lower than the bottom margin, and
\* returns y + height + 10.
C2_MeasureEqualsRender ==
    /\ pc \in {"measured", "drawn"} =>
          measured = margin + line_count * (font.ascent + font.descent + line_spacing) + margin
    /\ pc = "drawn" =>
          /\ canvas[1].op = "rect"
          /\ canvas[1].y = y
          /\ canvas[1].y2 - canvas[1].y = YUnit * measured
          /\ TextOps = 2..(1 + line_count)
          /\ \A i \in TextOps :
                /\ canvas[i].line = lines[i - 1]
                /\ canvas[i].y >= y + YUnit * margin
                /\ canvas[i].y + YUnit * (font.ascent + font.descent + line_spacing)
                      <= y + YUnit * (measured - margin)
          /\ ret = y + YUnit * (measured + 10)

C2_Witness ==
    /\ pc = "drawn"
    /\ margin > 0 /\ line_spacing > 0 /\ y > 0
    /\ Len(lines) >= 2
    /\ Cardinality(TextOps) = Len(lines)

\* C8: an empty or whitespace-only text wraps to no line, and its bubble,
\* measured or drawn, has height 2 * margin.
C8_BlankText ==
    (\A i \in 1..Len(text) : text[i] \in Whitespace) =>
        /\ pc \in {"measured", "drawn"} => measured = 2 * margin
        /\ pc = "drawn" =>
              /\ lines = <<>>
              /\ Len(canvas) = 1
              /\ canvas[1].op = "rect"
              /\ canvas[1].y2 - canvas[1].y = YUnit * 2 * margin

C8_Witness ==
    /\ pc = "drawn"
    /\ Len(text) >= 2
    /\ \A i \in 1..Len(text) : text[i] \in Whitespace
    /\ \E i \in 1..Len(text) : text[i] = "\n"
    /\ margin > 0
    /\ canvas[1].y2 - canvas[1].y = YUnit * 2 * margin

\* C6: draw_label_and_content draws one rectangle of height
\* H = margin + label lines * label line height + gap + content lines *
\* content line height + margin and returns y + H + 10; the label lines
\* start at y + margin, the content lines start gap below the label block,
\* no label line reaches into a content line and every line lies in the bubble.
C6_LabelAndContent ==
    pc = "labelled" =>
        LET maxw == bubble_width - 2 * margin
            nl == Len(wrap_text_by_pixels(label, label_font, maxw))
            nc == Len(wrap_text_by_pixels(text, font, maxw))
            llh == label_font.ascent + label_font.descent + line_spacing
            clh == font.ascent + font.descent + line_spacing
            H == margin + nl * llh + label_content_gap + nc * clh + margin
            LabelOps == 2..(1 + nl)
            ContentOps == (2 + nl)..(1 + nl + nc)
        IN /\ canvas[1].op = "rect"
           /\ canvas[1].y = y
           /\ canvas[1].y2 = y + YUnit * H
           /\ ret = y + YUnit * (H + 10)
           /\ TextOps = LabelOps \cup ContentOps
           /\ \A i \in LabelOps :
                 /\ canvas[i].font = label_font
                 /\ canvas[i].y = y + YUnit * (margin + (i - 2) * llh)
           /\ \A j \in ContentOps :
                 /\ canvas[j].font = font
                 /\ canvas[j].y = y + YUnit * (margin + nl * llh + label_content_gap
                                               + (j - 2 - nl) * clh)
           /\ \A i \in LabelOps, j \in ContentOps :
                 canvas[i].y + YUnit * llh <= canvas[j].y
           /\ \A i \in LabelOps :
                 canvas[1].y <= canvas[i].y /\ canvas[i].y + YUnit * llh <= canvas[1].y2
           /\ \A j \in ContentOps :
                 canvas[1].y <= canvas[j].y /\ canvas[j].y + YUnit * clh <= canvas[1].y2

C6_Witness ==
    /\ pc = "labelled"
    /\ label_content_gap > 0 /\ margin > 0
    /\ Len(canvas) >= 5
    /\ Len(wrap_text_by_pixels(label, label_font, bubble_width - 2 * margin)) >= 2
    /\ Len(wrap_text_by_pixels(text, font, bubble_width - 2 * margin)) >= 2

\* ---- card
\* the bubbles drawn at the left margin (the image frame starts at img_x - 8)
BubbleRects == SelectSeq(canvas, LAMBDA o : o.op = "rect" /\ o.x = 60)

image_bottom_plus_gap == img_y + YUnit * (img_h + 60)

\* C7: the free-text bubble starts neither above img_y + img_h + 60 nor
\* above the cursor left by the seven bubbles; when its measured height is
\* at least the space up to height - 50 it starts at the larger of the two,
\* otherwise a tenth of the slack lower; it is drawn where it was placed.
C7_FreeTextPlacement ==
    [][/\ pc = "place" =>
            LET base == Max(y, image_bottom_plus_gap)
                space == YUnit * (height - 50) - base
            IN /\ final_y' >= image_bottom_plus_gap
               /\ final_y' >= y
               /\ y' = base
               /\ YUnit * measured' >= space => final_y' = base
               /\ YUnit * measured' < space =>
                     /\ PlacementDen * (final_y' - base) = space - YUnit * measured'
                     /\ final_y' > base
       /\ pc = "final" =>
            /\ Len(canvas') > Len(canvas)
            /\ canvas'[Len(canvas) + 1].op = "rect"
            /\ canvas'[Len(canvas) + 1].y = final_y
     ]_vars

\* the bubble does not fit: placed at the cursor, which lies below the image
C7_Witness ==
    /\ pc = "done"
    /\ YUnit * measured >= space_for_bubble
    /\ measured > 2 * margin
    /\ final_y > image_bottom_plus_gap
    /\ BubbleRects[8].y = final_y

\* C10: the first bubble starts at y = 150, each of the seven label/content
\* bubbles, in the order of infos, starts exactly 10 px below the previous
\* one and the cursor grows at every step, the free-text bubble starts at or
\* below the last cursor, and the seven bubbles are 530 px wide with or
\* without an image.
C10_NoVerticalOverlap ==
    LET rs == BubbleRects
        n == Len(rs)
    IN /\ pc = "fields" => n = idx - 1
       /\ pc \in {"place", "final"} => n = 7
       /\ pc = "done" => n = 8
       /\ pc # "start" => bubble_width = 530
       /\ n >= 1 => rs[1].y = YUnit * 150
       /\ \A i \in 1..n :
             /\ rs[i].y2 > rs[i].y
             /\ i <= 7 => rs[i].x2 - rs[i].x = 530
             /\ (i > 1 /\ i <= 7) => rs[i].y = rs[i - 1].y2 + YUnit * 10
             /\ i = 8 => rs[i].y >= rs[i - 1].y2 + YUnit * 10
       /\ (pc = "fields" /\ n >= 1) => y = rs[n].y2 + YUnit * 10
       /\ \A i \in 1..Len(canvas) :
             (canvas[i].op = "rect" /\ canvas[i].x = 60 /\ i < Len(canvas))
                => LET k == Len(SelectSeq(SubSeq(canvas, 1, i),
                                          LAMBDA o : o.op = "rect" /\ o.x = 60))
                   IN k <= 7 => /\ canvas[i + 1].op = "text"
                                /\ canvas[i + 1].line = infos_labels[k]

C10_Witness ==
    /\ pc = "done"
    /\ ~image
    /\ Len(BubbleRects) = 8
    /\ BubbleRects[8].y > BubbleRects[7].y2 + YUnit * 10

====
